---------------------------- MODULE Spec2Model ----------------------------
(***************************************************************************)
(* A model of iidfile.py: the .iid container (header, lookup table,        *)
(* identifiers, metadata, groups, segments) and its access engine          *)
(* (IIDFile.add / fetch / find / filter / save, Groups.add / get).         *)
(*                                                                         *)
(* Files are modelled byte for byte: struct.pack / struct.unpack, the JSON *)
(* group directory and numpy's packbits / unpackbits are operators on      *)
(* sequences of bytes (naturals 0..255), so that a read at a wrong offset  *)
(* or through a stale memory map yields the bytes that are really there.   *)
(***************************************************************************)
EXTENDS Integers, Sequences, FiniteSets, TLC

(***************************************************************************)
(* Bounds of the model.                                                    *)
(***************************************************************************)
\* IIDFile.add is enabled while the lookup table has fewer slots than this.
MaxEntries == 2

\* Paths 1..NumPaths can hold a file; no path is written twice.
NumPaths == 2

(***************************************************************************)
(* Python values.  None and a missing attribute are the empty tuple, a     *)
(* present value v is the one-element tuple <<v>>.                         *)
(***************************************************************************)
None == <<>>

Some(v) == <<v>>

Get(o) == o[1]

IsNone(o) == Len(o) = 0

Min(a, b) == IF a < b THEN a ELSE b

\* buf[lo:hi] of Python for 0 <= lo, 0 <= hi: clipped to the buffer.
Slice(buf, lo, hi) ==
    IF lo >= Len(buf) \/ hi <= lo THEN <<>>
    ELSE SubSeq(buf, lo + 1, Min(hi, Len(buf)))

\* buf[lo:] of Python.
SliceFrom(buf, lo) == Slice(buf, lo, Len(buf))

RECURSIVE Join(_)
\* b''.join(list)
Join(bufs) == IF bufs = <<>> THEN <<>> ELSE Head(bufs) \o Join(Tail(bufs))

(***************************************************************************)
(* struct.pack / struct.unpack, little-endian, native sizes.               *)
(***************************************************************************)
uint16 == 2

uint32 == 4

\* TLC's integers are 32 bits wide.  A decoded "I" field whose top byte is
\* 32 or more (only ever the product of a read at a wrong offset) is held
\* as Big: it is compared with small keys and used as a slice bound past the
\* end of every buffer, and sums of three such values still fit.
Big == 32 * 16777216

\* pack("I", n), 0 <= n < 2^32
pack_I(n) ==
    << n % 256, (n \div 256) % 256, (n \div 65536) % 256, (n \div 16777216) % 256 >>

\* pack("H", n), 0 <= n < 2^16
pack_H(n) == << n % 256, (n \div 256) % 256 >>

\* unpack("I", b)[0] for a 4-byte b
unpack_I(b) ==
    IF b[4] >= 32 THEN Big
    ELSE b[1] + 256 * b[2] + 65536 * b[3] + 16777216 * b[4]

\* unpack("H", b)[0] for a 2-byte b
unpack_H(b) == b[1] + 256 * b[2]

\* The i-th (0-based) "I" field of a buffer of packed "I" fields.
FieldI(buf, i) == unpack_I(SubSeq(buf, uint32 * i + 1, uint32 * i + uint32))

\* The "H" field that starts at byte offset o (0-based).
FieldH(buf, o) == unpack_H(SubSeq(buf, o + 1, o + uint16))

(***************************************************************************)
(* BufferLocation                                                          *)
(***************************************************************************)
BufferLocation(offset, length) == [offset |-> offset, length |-> length]

\* BufferLocation.dump: pack("II", offset, length)
BufferLocation_dump(bl) == pack_I(bl.offset) \o pack_I(bl.length)

\* BufferLocation.load on an 8-byte buffer
BufferLocation_load(buf) == BufferLocation(FieldI(buf, 0), FieldI(buf, 1))

\* BufferLocation.buf: mmap[offset:offset + length]
BufferLocation_buf(mm, bl) == Slice(mm, bl.offset, bl.offset + bl.length)


(***************************************************************************)
(* numpy.packbits / numpy.unpackbits (most significant bit first).         *)
(***************************************************************************)
\* The bit at 0-based position i of bits, 0 past the end (the zero padding).
BitAt(bits, i) == IF i < Len(bits) THEN bits[i + 1] ELSE 0

\* The byte holding bits[8j : 8j + 8]
PackByte(bits, j) ==
    128 * BitAt(bits, 8 * j) + 64 * BitAt(bits, 8 * j + 1)
    + 32 * BitAt(bits, 8 * j + 2) + 16 * BitAt(bits, 8 * j + 3)
    + 8 * BitAt(bits, 8 * j + 4) + 4 * BitAt(bits, 8 * j + 5)
    + 2 * BitAt(bits, 8 * j + 6) + BitAt(bits, 8 * j + 7)

\* np.packbits(x) of a flat 0/1 array
packbits(bits) == [j \in 1..((Len(bits) + 7) \div 8) |-> PackByte(bits, j - 1)]

\* 2^(7 - i) for i in 0..7
BitWeight(i) == CASE i = 0 -> 128 [] i = 1 -> 64 [] i = 2 -> 32 [] i = 3 -> 16
                  [] i = 4 -> 8 [] i = 5 -> 4 [] i = 6 -> 2 [] OTHER -> 1

\* np.unpackbits(x) of a uint8 array
unpackbits(bytes) ==
    [k \in 1..(8 * Len(bytes)) |->
        (bytes[((k - 1) \div 8) + 1] \div BitWeight((k - 1) % 8)) % 2]

\* |h| * |w|, or cap + 1 when the product exceeds cap (no 32-bit overflow).
CappedProduct(h, w, cap) ==
    LET ah == IF h < 0 THEN 0 - h ELSE h
        aw == IF w < 0 THEN 0 - w ELSE w
    IN IF ah = 0 \/ aw = 0 THEN 0
       ELSE IF ah > cap \/ aw > cap THEN cap + 1
       ELSE Min(ah * aw, cap + 1)

\* len(x[:h*w]) for a flat array of nbits elements (a negative stop counts
\* from the end).
TruncatedLen(nbits, h, w) ==
    LET p == CappedProduct(h, w, nbits)
    IN IF (h < 0) = (w < 0) \/ p = 0 THEN Min(p, nbits) ELSE IF nbits > p THEN nbits - p ELSE 0

\* The rows of np.reshape(bits, (h, w)), h >= 0, w >= 0, Len(bits) = h * w.
Rows(bits, h, w) == [r \in 1..h |-> SubSeq(bits, (r - 1) * w + 1, r * w)]

(***************************************************************************)
(* Region                                                                  *)
(***************************************************************************)
Region(mask, bbox) == [mask |-> mask, bbox |-> bbox]

\* Region._dump
Region_dump(reg) ==
    LET x == packbits(Join(reg.mask))
        buffer == pack_H(reg.bbox[1]) \o pack_H(reg.bbox[2])
                  \o pack_H(reg.bbox[3]) \o pack_H(reg.bbox[4]) \o x
    IN pack_I(Len(buffer) + 4) \o buffer

\* The reshape of Region._load: [err, reg] for the unpacked bits x cut to n
\* elements and the shape (h, w)
Region_reshape(bbox, x, h, w, n) ==
    CASE h >= 0 /\ w >= 0 ->
              IF CappedProduct(h, w, Len(x)) = n
              THEN [err |-> "", reg |-> Region(Rows(SubSeq(x, 1, n), h, w), bbox)]
              ELSE [err |-> "ValueError", reg |-> Region(<<>>, bbox)]
         [] h = 0 - 1 /\ w > 0 ->
              IF n % w = 0
              THEN [err |-> "", reg |-> Region(Rows(SubSeq(x, 1, n), n \div w, w), bbox)]
              ELSE [err |-> "ValueError", reg |-> Region(<<>>, bbox)]
         [] w = 0 - 1 /\ h > 0 ->
              IF n % h = 0
              THEN [err |-> "", reg |-> Region(Rows(SubSeq(x, 1, n), h, n \div h), bbox)]
              ELSE [err |-> "ValueError", reg |-> Region(<<>>, bbox)]
         [] OTHER -> [err |-> "ValueError", reg |-> Region(<<>>, bbox)]

\* x[:(c-a)*(d-b)].reshape((c-a, d-b)) of Region._load for bbox (a, b, c, d)
Region_load_mask(bbox, x) ==
    Region_reshape(bbox, x, bbox[3] - bbox[1], bbox[4] - bbox[2],
                   TruncatedLen(Len(x), bbox[3] - bbox[1], bbox[4] - bbox[2]))

\* Region._load: [err, reg].  unpack("IHHHH") needs 12 bytes; the mask is the
\* unpacked bits cut to (c-a)*(d-b) and reshaped to (c-a, d-b), which numpy
\* refuses (ValueError) when the sizes disagree; one dimension of -1 is
\* inferred by numpy.
Region_load(buf) ==
    IF Len(buf) < uint32 + uint16 * 4
    THEN [err |-> "struct.error", reg |-> Region(<<>>, <<0, 0, 0, 0>>)]
    ELSE Region_load_mask(<< FieldH(buf, 4), FieldH(buf, 6), FieldH(buf, 8), FieldH(buf, 10) >>,
                          unpackbits(SliceFrom(buf, uint32 + uint16 * 4)))

(***************************************************************************)
(* Regions                                                                 *)
(***************************************************************************)
RECURSIVE Regions_load_from(_, _, _)
\* After one region r of the while loop of Regions._load, the next at o
Regions_load_next(buf, o, entries_, r) ==
    IF r.err # "" THEN [err |-> r.err, regions |-> entries_]
    ELSE Regions_load_from(buf, o, Append(entries_, r.reg))

\* The region of the given length at offset o
Regions_load_at(buf, o, entries_, length) ==
    Regions_load_next(buf, o + length, entries_, Region_load(Slice(buf, o, o + length)))

\* The while loop of Regions._load from offset o, entries loaded so far.
Regions_load_from(buf, o, entries_) ==
    IF o >= Len(buf) THEN [err |-> "", regions |-> entries_]
    ELSE IF Len(buf) - o < uint32 THEN [err |-> "struct.error", regions |-> entries_]
    ELSE Regions_load_at(buf, o, entries_, unpack_I(Slice(buf, o, o + uint32)))

\* Regions._load on a fresh Regions(): [err, regions]
Regions_load(buf) == Regions_load_from(buf, 0, <<>>)

\* Regions._dump
Regions_dump(regions) == Join([i \in 1..Len(regions) |-> Region_dump(regions[i])])

(***************************************************************************)
(* Segment                                                                 *)
(***************************************************************************)
Segment(key, bbox, area, regions, bufloc) ==
    [key |-> key, bbox |-> bbox, area |-> area, regions |-> regions, bufloc |-> bufloc]

\* The header fields of Segment.load with the regions given
Segment_loaded(seg, buf, err, regions) ==
    [err |-> err,
     seg |-> [seg EXCEPT !.key = FieldI(buf, 0),
                         !.area = Some(FieldI(buf, 3)),
                         !.bbox = Some(<< FieldH(buf, 4), FieldH(buf, 6),
                                          FieldH(buf, 8), FieldH(buf, 10) >>),
                         !.regions = Some(regions)]]

\* Segment.load with the regions r of the buffer replacing those of the
\* segment
Segment_load_regions(seg, buf, r) == Segment_loaded(seg, buf, r.err, r.regions)

\* The regions r of the buffer added to those the segment holds already
Segment_extend_regions(seg, buf, r) ==
    Segment_loaded(seg, buf, r.err,
                   (IF IsNone(seg.regions) THEN <<>> ELSE Get(seg.regions)) \o r.regions)

\* A variant of Segment.load that extends the regions the segment already
\* holds instead of replacing them
Segment_load_Extend(seg, buf) ==
    IF Len(buf) < uint32 + uint16 * 4 + uint32 THEN [err |-> "struct.error", seg |-> seg]
    ELSE Segment_extend_regions(seg, buf,
                                Regions_load(SliceFrom(buf, uint32 + uint16 * 4 + uint32)))

\* Segment.load: [err, seg].  key, area and bbox are assigned from the 16-byte
\* header, then a fresh Regions() is filled until the buffer ends or a
\* region fails to decode.
Segment_load(seg, buf) ==
    IF Len(buf) < uint32 + uint16 * 4 + uint32 THEN [err |-> "struct.error", seg |-> seg]
    ELSE Segment_load_regions(seg, buf,
                              Regions_load(SliceFrom(buf, uint32 + uint16 * 4 + uint32)))

\* The result of Segment.dump with the bytes written
Segment_dumped(seg, offset, buf) ==
    [err |-> "", buf |-> buf,
     seg |-> [seg EXCEPT !.bufloc = Some(BufferLocation(offset, Len(buf)))]]

\* Segment.dump(offset): [err, buf, seg].  A segment whose regions were never
\* set (loaded from the lookup table and not fetched) has regions = None.
Segment_dump(seg, offset) ==
    IF IsNone(seg.regions) THEN [err |-> "AttributeError", buf |-> <<>>, seg |-> seg]
    ELSE IF IsNone(seg.bbox) THEN [err |-> "TypeError", buf |-> <<>>, seg |-> seg]
    ELSE IF IsNone(seg.area) THEN [err |-> "struct.error", buf |-> <<>>, seg |-> seg]
    ELSE Segment_dumped(seg, offset,
            pack_I(seg.key) \o pack_H(Get(seg.bbox)[1]) \o pack_H(Get(seg.bbox)[2])
            \o pack_H(Get(seg.bbox)[3]) \o pack_H(Get(seg.bbox)[4])
            \o pack_I(Get(seg.area)) \o Regions_dump(Get(seg.regions)))

(***************************************************************************)
(* IID                                                                     *)
(***************************************************************************)
IID(iid, domain, key, bufloc) ==
    [iid |-> iid, domain |-> domain, key |-> key, bufloc |-> bufloc]

\* A variant of IID.load that reads the identifier before the domain
IID_load_IidFirst(iid, buf) ==
    IF Len(buf) < uint32 * 3 THEN [err |-> "struct.error", iid |-> iid]
    ELSE
      LET dom_len == FieldI(buf, 1)
          iid_len == FieldI(buf, 2)
          o == uint32 * 3
      IN [err |-> "",
          iid |-> [iid EXCEPT !.key = FieldI(buf, 0),
                              !.iid = Some(Slice(buf, o, o + iid_len)),
                              !.domain = IF dom_len = 0 THEN None
                                         ELSE Some(Slice(buf, o + iid_len,
                                                         o + iid_len + dom_len))]]

\* IID.load: [err, iid].  A domain length of 0 is read back as None.
IID_load(iid, buf) ==
    IF Len(buf) < uint32 * 3 THEN [err |-> "struct.error", iid |-> iid]
    ELSE
      LET dom_len == FieldI(buf, 1)
          iid_len == FieldI(buf, 2)
          o == uint32 * 3
      IN [err |-> "",
          iid |-> [iid EXCEPT !.key = FieldI(buf, 0),
                              !.domain = IF dom_len = 0 THEN None
                                         ELSE Some(Slice(buf, o, o + dom_len)),
                              !.iid = Some(Slice(buf, o + dom_len, o + dom_len + iid_len))]]

\* "x if x else b''" for an optional byte string
OrEmpty(o) == IF IsNone(o) THEN <<>> ELSE Get(o)

\* The result of IID.dump with the bytes written
IID_dumped(iid, offset, buf) ==
    [buf |-> buf, iid |-> [iid EXCEPT !.bufloc = Some(BufferLocation(offset, Len(buf)))]]

\* IID.dump(offset): [buf, iid]
IID_dump(iid, offset) ==
    IID_dumped(iid, offset,
               pack_I(iid.key) \o pack_I(Len(OrEmpty(iid.domain)))
               \o pack_I(Len(OrEmpty(iid.iid))) \o OrEmpty(iid.domain) \o OrEmpty(iid.iid))

(***************************************************************************)
(* Iteration order of a Python set of small integers.  CPython keeps a set *)
(* of at most four small ints in an 8-slot table indexed by hash & 7;      *)
(* hash(k) = k for k >= 0 and hash(-1) = -2, which lands in slot 6: the    *)
(* keys of this model (-1 and 0 .. MaxEntries, below 6) iterate in         *)
(* ascending order with -1 last.                                           *)
(***************************************************************************)
HashSlot(k) == IF k < 0 THEN 6 ELSE k

RECURSIVE SetOrder(_)
\* list(s) / "for k in s" for a set of keys
SetOrder(s) ==
    IF s = {} THEN <<>>
    ELSE LET k == CHOOSE x \in s : \A y \in s : HashSlot(x) <= HashSlot(y)
         IN <<k>> \o SetOrder(s \ {k})

\* set(list)
SetOf(seq) == {seq[i] : i \in 1..Len(seq)}

(***************************************************************************)
(* json.dumps / json.loads of the group directory, a list of               *)
(* {"name": ..., "offset": ..., "length": ...}.  Group names are byte      *)
(* strings of ASCII letters.                                               *)
(***************************************************************************)
RECURSIVE Dec(_)
\* str(n).encode() for n >= 0
Dec(n) == IF n < 10 THEN <<48 + n>> ELSE Dec(n \div 10) \o <<48 + (n % 10)>>

\* {"name": "
LitName == <<123, 34, 110, 97, 109, 101, 34, 58, 32, 34>>

\* ", "offset": 
LitOffset == <<34, 44, 32, 34, 111, 102, 102, 115, 101, 116, 34, 58, 32>>

\* , "length": 
LitLength == <<44, 32, 34, 108, 101, 110, 103, 116, 104, 34, 58, 32>>

\* json.dumps of one directory entry
json_dumps_group(g) ==
    LitName \o g.name \o LitOffset \o Dec(g.offset) \o LitLength \o Dec(g.length) \o <<125>>

RECURSIVE json_dumps_items(_)
\* The entries of a non-empty list, joined by ", "
json_dumps_items(groups_) ==
    IF Len(groups_) = 1 THEN json_dumps_group(groups_[1])
    ELSE json_dumps_group(Head(groups_)) \o <<44, 32>> \o json_dumps_items(Tail(groups_))

\* json.dumps(groups).encode('utf-8')
json_dumps(groups_) ==
    IF groups_ = <<>> THEN <<91, 93>> ELSE <<91>> \o json_dumps_items(groups_) \o <<93>>

\* buf has lit at 1-based position p
HasAt(buf, p, lit) ==
    p + Len(lit) - 1 <= Len(buf) /\ SubSeq(buf, p, p + Len(lit) - 1) = lit

RECURSIVE ScanQuote(_, _)
\* The position of the first '"' at or after p, 0 when there is none.
ScanQuote(buf, p) ==
    IF p > Len(buf) THEN 0 ELSE IF buf[p] = 34 THEN p ELSE ScanQuote(buf, p + 1)

RECURSIVE ScanDigits(_, _)
\* The first position at or after p that holds no decimal digit.
ScanDigits(buf, p) ==
    IF p > Len(buf) \/ buf[p] < 48 \/ buf[p] > 57 THEN p ELSE ScanDigits(buf, p + 1)

RECURSIVE DecValue(_)
\* int(digits)
DecValue(digits) ==
    IF digits = <<>> THEN 0
    ELSE 10 * DecValue(SubSeq(digits, 1, Len(digits) - 1)) + (digits[Len(digits)] - 48)

RECURSIVE json_loads_items(_, _, _)
\* Parses directory entries from position p: [err, groups]
json_loads_items(buf, p, acc) ==
    LET bad == [err |-> "JSONDecodeError", groups |-> <<>>]
    IN IF ~HasAt(buf, p, LitName) THEN bad
       ELSE
        LET n1 == p + Len(LitName)
            n2 == ScanQuote(buf, n1)
        IN IF n2 = 0 \/ ~HasAt(buf, n2, LitOffset) THEN bad
           ELSE
            LET o1 == n2 + Len(LitOffset)
                o2 == ScanDigits(buf, o1)
            IN IF o2 = o1 \/ ~HasAt(buf, o2, LitLength) THEN bad
               ELSE
                LET l1 == o2 + Len(LitLength)
                    l2 == ScanDigits(buf, l1)
                    g == [name |-> SubSeq(buf, n1, n2 - 1),
                          offset |-> DecValue(SubSeq(buf, o1, o2 - 1)),
                          length |-> DecValue(SubSeq(buf, l1, l2 - 1))]
                IN IF l2 = l1 \/ ~HasAt(buf, l2, <<125>>) THEN bad
                   ELSE IF HasAt(buf, l2 + 1, <<93>>) /\ l2 + 1 = Len(buf)
                        THEN [err |-> "", groups |-> Append(acc, g)]
                   ELSE IF HasAt(buf, l2 + 1, <<44, 32>>)
                        THEN json_loads_items(buf, l2 + 3, Append(acc, g))
                   ELSE bad

\* json.loads(buf.decode('utf-8')) of a group directory: [err, groups]
json_loads(buf) ==
    IF buf = <<91, 93>> THEN [err |-> "", groups |-> <<>>]
    ELSE IF ~HasAt(buf, 1, <<91>>) THEN [err |-> "JSONDecodeError", groups |-> <<>>]
    ELSE json_loads_items(buf, 2, <<>>)

(***************************************************************************)
(* Metadata: the data dict is {} throughout (no operation of the engine    *)
(* writes it).                                                             *)
(***************************************************************************)
\* Metadata.dump: json.dumps({}).encode('utf-8')
Metadata_dump == <<123, 125>>

\* Metadata.load: "" when the bytes parse as JSON (here: as {})
Metadata_load(buf) == IF buf = <<123, 125>> THEN "" ELSE "JSONDecodeError"

(***************************************************************************)
(* Group / Groups                                                          *)
(***************************************************************************)
Group(name, keys_set, bufloc) == [name |-> name, keys_set |-> keys_set, bufloc |-> bufloc]

\* Group.dump: pack("%sI" % len(keys_set), *keys_set); len(None) is a TypeError
Group_dump(group) ==
    IF IsNone(group.keys_set) THEN [err |-> "TypeError", buf |-> <<>>]
    ELSE LET ks == SetOrder(Get(group.keys_set))
         IN [err |-> "", buf |-> Join([i \in 1..Len(ks) |-> pack_I(ks[i])])]

\* Group.load: set(unpack("%sI" % (len(buf) // uint32), buf)): [err, keys_set]
Group_load(buf) ==
    IF Len(buf) % uint32 # 0 THEN [err |-> "struct.error", keys_set |-> None]
    ELSE [err |-> "", keys_set |-> Some({FieldI(buf, i) : i \in 0..((Len(buf) \div uint32) - 1)})]

\* The position of the group called name in the dict, 0 when absent.
GroupIndex(groups_, name) ==
    IF \E i \in 1..Len(groups_) : groups_[i].name = name
    THEN CHOOSE i \in 1..Len(groups_) : groups_[i].name = name
    ELSE 0

\* self._entries[name] = group: a new name goes last, a known one keeps its place.
DictSet(groups_, group) ==
    LET i == GroupIndex(groups_, group.name)
    IN IF i = 0 THEN Append(groups_, group) ELSE [groups_ EXCEPT ![i] = group]

RECURSIVE Groups_load_each(_, _, _, _)
\* The for loop of Groups._load over the parsed directory: [err, entries]
Groups_load_each(mm, dir, o, acc) ==
    IF dir = <<>> THEN [err |-> "", entries |-> acc]
    ELSE LET g == Head(dir)
             bl == BufferLocation(g.offset + o, g.length)
             r == Group_load(BufferLocation_buf(mm, bl))
         IN IF r.err # "" THEN [err |-> r.err, entries |-> acc]
            ELSE Groups_load_each(mm, Tail(dir), o,
                                  DictSet(acc, Group(g.name, r.keys_set, Some(bl))))

\* Groups._load once the directory is parsed; o is where the key blocks start
Groups_load_json(mm, o, j) ==
    IF j.err # "" THEN [err |-> j.err, entries |-> <<>>]
    ELSE Groups_load_each(mm, j.groups, o, <<>>)

\* Groups._load on the bytes buf of the block at offset o
Groups_load_dir(mm, o, buf) ==
    IF Len(buf) < uint32 THEN [err |-> "struct.error", entries |-> <<>>]
    ELSE Groups_load_json(mm, o + uint32 + FieldI(buf, 0),
                          json_loads(Slice(buf, uint32, uint32 + FieldI(buf, 0))))

\* Groups._load: [err, entries]
Groups_load(mm, bufloc_) ==
    Groups_load_dir(mm, bufloc_.offset,
                    Slice(mm, bufloc_.offset, bufloc_.offset + bufloc_.length))

RECURSIVE Groups_dump_each(_, _, _, _)
\* The for loop of Groups._dump: [err, buffer, groups]
Groups_dump_each(groups_, offset, buffer, dir) ==
    IF groups_ = <<>> THEN [err |-> "", buffer |-> buffer, groups |-> dir]
    ELSE LET r == Group_dump(Head(groups_))
         IN IF r.err # "" THEN [err |-> r.err, buffer |-> buffer, groups |-> dir]
            ELSE Groups_dump_each(Tail(groups_), offset + Len(r.buf), buffer \o r.buf,
                    Append(dir, [name |-> Head(groups_).name, offset |-> offset,
                                 length |-> Len(r.buf)]))

\* The block of Groups._dump: the directory length, the directory, the keys
Groups_buffer(dir, buffer) == [err |-> "", buf |-> pack_I(Len(dir)) \o dir \o buffer]

\* Groups._dump after the loop over the groups
Groups_dumped(r) ==
    IF r.err # "" THEN [err |-> r.err, buf |-> <<>>]
    ELSE Groups_buffer(json_dumps(r.groups), r.buffer)

\* Groups._dump: [err, buf]
Groups_dump(groups_) == Groups_dumped(Groups_dump_each(groups_, 0, <<>>, <<>>))

(***************************************************************************)
(* LookupTableEntry.  A slot of lut.entries is None or Some(entry).        *)
(***************************************************************************)
LookupTableEntry(key, iid, seg) == [key |-> key, iid |-> iid, seg |-> seg]

LookupTableEntry_length == 5 * uint32

\* LookupTableEntry(key=key, buffer=buf): the key field of the record goes
\* to the IID and the Segment, the slot index to the entry.
LookupTableEntry_load(key, buf) ==
    LookupTableEntry(key,
        IID(None, None, FieldI(buf, 0),
            Some(BufferLocation(FieldI(buf, 1), FieldI(buf, 2)))),
        Segment(FieldI(buf, 0), None, None, None,
            Some(BufferLocation(FieldI(buf, 3), FieldI(buf, 4)))))

\* LookupTableEntry.dump
LookupTableEntry_dump(entry) ==
    pack_I(entry.iid.key) \o BufferLocation_dump(Get(entry.iid.bufloc))
    \o BufferLocation_dump(Get(entry.seg.bufloc))

(***************************************************************************)
(* The state: files on disk and one IIDFile instance.                      *)
(***************************************************************************)
VARIABLES
    disk,      \* path -> None (no such file) or Some(bytes of the file)
    exists,    \* IIDFile.exists
    mmap,      \* IIDFile.mmap (with IIDFile.file): None or Some(path mapped)
    blockmap,  \* the mmap attribute of lut, iids, segs, meta and groups,
               \* set in their constructors only: None or Some(path mapped)
    header,    \* Header: version, rformat and the five buffer locations
    bufloc,    \* lut.bufloc, iids.bufloc, meta.bufloc, groups._bufloc,
               \* segs.bufloc: None while the attribute does not exist
    entries,   \* lut.entries: a sequence of None / Some(LookupTableEntry)
    fetched,   \* lut.fetched
    groups,    \* groups._entries, in insertion order
    ret,       \* the call that has just ended: its name, arguments, error
               \* ("" = it returned) and returned value; op = "none" once the
               \* caller has taken the result and is about to call again
    hist       \* history of the instance and of the files (not program state)

vars == << disk, exists, mmap, blockmap, header, bufloc, entries, fetched, groups, ret, hist >>

Paths == 1..NumPaths

\* The bytes behind a memory map of path p (a path is written once).
Mapped(p) == Get(disk[p])

Header_length == 12 * uint32

(***************************************************************************)
(* Python indexing of lut.entries                                          *)
(***************************************************************************)
\* The 1-based position lut.entries[k] reads (a negative k counts from the
\* end), for a list of n slots.
Pos(k, n) == IF k < 0 THEN n + k + 1 ELSE k + 1

\* lut.entries[k] raises IndexError
OutOfRange(k, n) == Pos(k, n) < 1 \/ Pos(k, n) > n

RECURSIVE LookupErr(_, _)
\* [lut.entries[k].attr for k in keys]: the error of the first key that
\* fails (IndexError out of range, AttributeError on a None slot), else "".
LookupErr(ents, ks) ==
    IF ks = <<>> THEN ""
    ELSE IF OutOfRange(Head(ks), Len(ents)) THEN "IndexError"
    ELSE IF IsNone(ents[Pos(Head(ks), Len(ents))]) THEN "AttributeError"
    ELSE LookupErr(ents, Tail(ks))

\* [entry.key for entry in self.lut.entries]: [err, keys]
AllKeys(ents) ==
    IF \E i \in 1..Len(ents) : IsNone(ents[i]) THEN [err |-> "AttributeError", keys |-> <<>>]
    ELSE [err |-> "", keys |-> [i \in 1..Len(ents) |-> Get(ents[i]).key]]

(***************************************************************************)
(* Segments.fetch / IIDs.fetch                                             *)
(***************************************************************************)
\* buf(mmap, bufloc, offset): mmap[offset+o : offset+o+l]
BlockBuf(mm, bl, offset) == Slice(mm, offset + bl.offset, offset + bl.offset + bl.length)

\* lut.entries with the segment of slot i replaced
WithSeg(ents, i, seg) == [ents EXCEPT ![i] = Some([Get(ents[i]) EXCEPT !.seg = seg])]

RECURSIVE Segments_fetch_each(_, _, _)
\* After the load r of the segment of slot i, the segments of the other keys
Segments_fetch_next(ents, ks, offset, i, r) ==
    IF r.err # "" THEN [err |-> r.err, entries |-> WithSeg(ents, i, r.seg)]
    ELSE Segments_fetch_each(WithSeg(ents, i, r.seg), Tail(ks), offset)

\* seg.load(buf=buf(self.mmap, seg.bufloc, offset)) for the segment of slot i
Segments_fetch_slot(ents, ks, offset, i) ==
    IF IsNone(Get(ents[i]).seg.bufloc) THEN [err |-> "AttributeError", entries |-> ents]
    ELSE Segments_fetch_next(ents, ks, offset, i,
            Segment_load(Get(ents[i]).seg,
                         BlockBuf(Mapped(Get(blockmap)), Get(Get(ents[i]).seg.bufloc), offset)))

\* [seg.load(buf=buf(self.mmap, seg.bufloc, offset)) for seg in segs]
Segments_fetch_each(ents, ks, offset) ==
    IF ks = <<>> THEN [err |-> "", entries |-> ents]
    ELSE IF IsNone(blockmap) THEN [err |-> "AttributeError", entries |-> ents]
    ELSE Segments_fetch_slot(ents, ks, offset, Pos(Head(ks), Len(ents)))

\* Segments.fetch(keys): [err, entries]
Segments_fetch(ents, ks) ==
    IF IsNone(bufloc.segs) THEN [err |-> "AttributeError", entries |-> ents]
    ELSE IF LookupErr(ents, ks) # "" THEN [err |-> LookupErr(ents, ks), entries |-> ents]
    ELSE Segments_fetch_each(ents, ks, Get(bufloc.segs).offset)

\* lut.entries with the IID of slot i replaced
WithIid(ents, i, iid) == [ents EXCEPT ![i] = Some([Get(ents[i]) EXCEPT !.iid = iid])]

RECURSIVE IIDs_fetch_each(_, _, _)
\* After the load r of the IID of slot i, the IIDs of the other keys
IIDs_fetch_next(ents, ks, offset, i, r) ==
    IF r.err # "" THEN [err |-> r.err, entries |-> WithIid(ents, i, r.iid)]
    ELSE IIDs_fetch_each(WithIid(ents, i, r.iid), Tail(ks), offset)

\* iid.load(buf=buf(self.mmap, iid.bufloc, offset)) for the IID of slot i
IIDs_fetch_slot(ents, ks, offset, i) ==
    IF IsNone(Get(ents[i]).iid.bufloc) THEN [err |-> "AttributeError", entries |-> ents]
    ELSE IIDs_fetch_next(ents, ks, offset, i,
            IID_load(Get(ents[i]).iid,
                     BlockBuf(Mapped(Get(blockmap)), Get(Get(ents[i]).iid.bufloc), offset)))

\* [iid.load(buf=buf(self.mmap, iid.bufloc, offset)) for iid in iids]
IIDs_fetch_each(ents, ks, offset) ==
    IF ks = <<>> THEN [err |-> "", entries |-> ents]
    ELSE IF IsNone(blockmap) THEN [err |-> "AttributeError", entries |-> ents]
    ELSE IIDs_fetch_slot(ents, ks, offset, Pos(Head(ks), Len(ents)))

\* IIDs.fetch(keys): [err, entries]
IIDs_fetch(ents, ks) ==
    IF IsNone(bufloc.iids) THEN [err |-> "AttributeError", entries |-> ents]
    ELSE IF LookupErr(ents, ks) # "" THEN [err |-> LookupErr(ents, ks), entries |-> ents]
    ELSE IIDs_fetch_each(ents, ks, Get(bufloc.iids).offset)

(***************************************************************************)
(* Groups.get / Groups._keys                                               *)
(***************************************************************************)
RECURSIVE GroupKeys(_, _, _)
\* The loop of Groups.get (and of Groups._keys) over the group names:
\* [err, keys].  An unknown name is a KeyError, list(None) a TypeError.
GroupKeys(groups_, names, acc) ==
    IF names = <<>> THEN [err |-> "", keys |-> acc]
    ELSE LET i == GroupIndex(groups_, Head(names))
         IN IF i = 0 THEN [err |-> "KeyError", keys |-> acc]
            ELSE IF IsNone(groups_[i].keys_set) THEN [err |-> "TypeError", keys |-> acc]
            ELSE GroupKeys(groups_, Tail(names), acc \cup Get(groups_[i].keys_set))

\* Groups.get(groups, keys_only=True) and Groups._keys(groups): [err, keys]
Groups_keys(groups_, names) == GroupKeys(groups_, names, {})

(***************************************************************************)
(* IIDFile.fetch                                                           *)
(***************************************************************************)
\* The arguments of fetch.  keys is None, or Some([isint, list]): an int k is
\* held as isint with list <<k>> (the promotion of line 151); groups is None
\* or Some(list of names).
FetchArgs(keys, all_keys, groups_, iids, segs, everything) ==
    [keys |-> keys, all_keys |-> all_keys, groups |-> groups_, iids |-> iids,
     segs |-> segs, everything |-> everything]

\* "if groups:" / "if keys:" for an optional list
Truthy(o) == ~IsNone(o) /\ Get(o) # <<>>

\* Lines 144-162: the key set fetch works on: [err, keys]
FetchKeys(ents, a) ==
    IF a.everything \/ (~Truthy(a.groups) /\ a.all_keys)
    THEN LET r == AllKeys(ents) IN [err |-> r.err, keys |-> SetOf(r.keys)]
    ELSE IF Truthy(a.groups) THEN Groups_keys(groups, Get(a.groups))
    ELSE IF IsNone(a.keys) THEN [err |-> "", keys |-> {}]
    ELSE [err |-> "", keys |-> SetOf(Get(a.keys).list)]

\* [self.lut.entries[key] for key in keys]
EntriesAt(ents, ks) == [j \in 1..Len(ks) |-> ents[Pos(ks[j], Len(ents))]]

\* Lines 169-171 of fetch, after the IIDs were fetched with result i: the
\* keys are recorded, then the entries are looked up.
Fetch_return(ents, ftd, keys, ks, i) ==
    IF i.err # "" THEN [err |-> i.err, entries |-> i.entries, fetched |-> ftd, val |-> <<>>]
    ELSE IF \E j \in 1..Len(ks) : OutOfRange(ks[j], Len(ents))
         THEN [err |-> "IndexError", entries |-> i.entries, fetched |-> ftd \cup keys,
               val |-> <<>>]
    ELSE [err |-> "", entries |-> i.entries, fetched |-> ftd \cup keys,
          val |-> EntriesAt(i.entries, ks)]

\* Lines 166-167 of fetch, after the segments were fetched with result s
Fetch_iids(ents, ftd, a, keys, ks, s) ==
    IF s.err # "" THEN [err |-> s.err, entries |-> s.entries, fetched |-> ftd, val |-> <<>>]
    ELSE Fetch_return(ents, ftd, keys, ks,
            IF a.iids \/ a.everything THEN IIDs_fetch(s.entries, ks)
            ELSE [err |-> "", entries |-> s.entries])

\* Lines 164-165 of fetch for the key set keys, iterated as ks
Fetch_segs(ents, ftd, a, keys, ks) ==
    Fetch_iids(ents, ftd, a, keys, ks,
        IF a.segs \/ a.everything THEN Segments_fetch(ents, ks)
        ELSE [err |-> "", entries |-> ents])

\* fetch once its key set k = [err, keys] is resolved
Fetch_keys(ents, ftd, a, k) ==
    IF k.err # "" THEN [err |-> k.err, entries |-> ents, fetched |-> ftd, val |-> <<>>]
    ELSE Fetch_segs(ents, ftd, a, k.keys, SetOrder(k.keys))

\* IIDFile.fetch: [err, entries, fetched, val]
IIDFile_fetch(ents, ftd, a) == Fetch_keys(ents, ftd, a, FetchKeys(ents, a))

\* Groups.get once the keys k = [err, keys] of the groups are known
Groups_get_keys(ents, ftd, segs, k) ==
    IF k.err # "" THEN [err |-> k.err, entries |-> ents, fetched |-> ftd, val |-> <<>>]
    ELSE IIDFile_fetch(ents, ftd,
            FetchArgs(Some([isint |-> FALSE, list |-> SetOrder(k.keys)]),
                      FALSE, None, FALSE, segs, FALSE))

\* Groups.get(groups, segs=segs): [err, entries, fetched, val]
Groups_get(ents, ftd, names, segs) ==
    Groups_get_keys(ents, ftd, segs, Groups_keys(groups, names))

(***************************************************************************)
(* IIDFile.find / IIDFile.filter                                           *)
(***************************************************************************)
\* [entry for entry in entries if ...] raises AttributeError on a None entry
HasNoneEntry(val) == \E j \in 1..Len(val) : IsNone(val[j])

\* entry.iid.domain in domains
DomainIn(e, domains) ==
    \E j \in 1..Len(domains) : e.iid.domain = Some(domains[j])

\* entry.iid.iid in iids
IidIn(e, iids) == \E j \in 1..Len(iids) : e.iid.iid = Some(iids[j])

\* Lines 195-198 of find on the result f of the fetch
Find_select(a, f) ==
    LET KeepDomain(s) == DomainIn(Get(s), Get(a.domains))
        KeepIid(s) == IidIn(Get(s), a.iids)
    IN IF f.err # "" THEN f
       ELSE IF HasNoneEntry(f.val) THEN [f EXCEPT !.err = "AttributeError", !.val = <<>>]
       ELSE [f EXCEPT !.val = SelectSeq(IF Truthy(a.domains) THEN SelectSeq(f.val, KeepDomain)
                                        ELSE f.val,
                                        KeepIid)]

\* IIDFile.find(iids, groups, domains, segs): [err, entries, fetched, val]
IIDFile_find(ents, ftd, a) ==
    Find_select(a,
        IF Truthy(a.groups) THEN Groups_get(ents, ftd, Get(a.groups), a.segs)
        ELSE IIDFile_fetch(ents, ftd, FetchArgs(None, TRUE, None, TRUE, a.segs, FALSE)))

\* min_area < entry.seg.area < max_area, with None read as 0 / inf
AreaIn(e, area) ==
    LET min_area == IF IsNone(area[1]) THEN 0 ELSE Get(area[1])
    IN min_area < Get(e.seg.area)
       /\ (IsNone(area[2]) \/ Get(e.seg.area) < Get(area[2]))

\* Lines 225-228 of filter on the entries kept by the domains
Filter_area(a, f, byDomain) ==
    LET KeepArea(s) == AreaIn(Get(s), Get(a.area))
    IN IF ~IsNone(a.area) /\ \E j \in 1..Len(byDomain) : IsNone(Get(byDomain[j]).seg.area)
       THEN [f EXCEPT !.err = "TypeError", !.val = <<>>]
       ELSE [f EXCEPT !.val = IF IsNone(a.area) THEN byDomain ELSE SelectSeq(byDomain, KeepArea)]

\* Lines 220-230 of filter on the result f of the fetch
Filter_select(a, f) ==
    LET KeepDomain(s) == DomainIn(Get(s), Get(a.domains))
    IN IF f.err # "" THEN f
       ELSE IF HasNoneEntry(f.val) /\ (Truthy(a.domains) \/ ~IsNone(a.area))
            THEN [f EXCEPT !.err = "AttributeError", !.val = <<>>]
       ELSE Filter_area(a, f, IF Truthy(a.domains) THEN SelectSeq(f.val, KeepDomain) ELSE f.val)

\* Lines 211-218 of filter: the fetch it makes, of the groups when given and
\* of every key otherwise, with the segments when an area is given
Filter_fetch(a) ==
    IF Truthy(a.groups)
    THEN FetchArgs(None, FALSE, a.groups, TRUE, IF ~IsNone(a.area) THEN TRUE ELSE a.segs, FALSE)
    ELSE FetchArgs(None, TRUE, None, TRUE, IF ~IsNone(a.area) THEN TRUE ELSE a.segs, FALSE)

\* IIDFile.filter(groups, area, domains, segs): [err, entries, fetched, val];
\* area is None or Some(<<min, max>>), each bound None or Some(number).
IIDFile_filter(ents, ftd, a) == Filter_select(a, IIDFile_fetch(ents, ftd, Filter_fetch(a)))

(***************************************************************************)
(* Groups.add / IIDFile.add                                                *)
(***************************************************************************)
\* Groups.add(name, keys): [err, groups].  keys is None or Some(list).  The
\* entries are looked up first (IndexError), Group.add then reads their
\* keys (AttributeError on a None slot), and only then is the group stored.
Groups_add(groups_, ents, name, keys) ==
    LET i == GroupIndex(groups_, name)
        group == IF i = 0 THEN Group(name, None, None) ELSE groups_[i]
        ks == Get(keys)
        n == Len(ents)
        new == {Get(ents[Pos(ks[j], n)]).key : j \in 1..Len(ks)}
        old == IF IsNone(group.keys_set) THEN {} ELSE Get(group.keys_set)
    IN IF ~Truthy(keys) THEN [err |-> "", groups |-> DictSet(groups_, group)]
       ELSE IF \E j \in 1..Len(ks) : OutOfRange(ks[j], n)
            THEN [err |-> "IndexError", groups |-> groups_]
       ELSE IF \E j \in 1..Len(ks) : IsNone(ents[Pos(ks[j], n)])
            THEN [err |-> "AttributeError", groups |-> groups_]
       ELSE [err |-> "",
             groups |-> DictSet(groups_, [group EXCEPT !.keys_set = Some(old \cup new)])]

\* LookupTable.add after lines 121-123 of IIDFile.add: the new slot
LookupTable_add(ents, iid, domain, seg) ==
    LET key == Len(ents)
    IN Append(ents, Some(LookupTableEntry(key,
                  IID(iid, domain, key, None),
                  Segment(key, Some(seg.bbox), Some(seg.area), Some(seg.regions), None))))

(***************************************************************************)
(* Header                                                                  *)
(***************************************************************************)
\* Header.__init__ of an instance created empty
Header_new ==
    [version |-> 0, rformat |-> 0,
     bufloc_lut |-> BufferLocation(0, 0), bufloc_iids |-> BufferLocation(0, 0),
     bufloc_meta |-> BufferLocation(0, 0), bufloc_groups |-> BufferLocation(0, 0),
     bufloc_segs |-> BufferLocation(0, 0)]

\* Header.load: [err, header]
Header_load(mm) ==
    IF Len(mm) < Header_length THEN [err |-> "struct.error", header |-> Header_new]
    ELSE [err |-> "",
          header |-> [version |-> FieldI(mm, 0), rformat |-> FieldI(mm, 1),
                      bufloc_lut |-> BufferLocation_load(Slice(mm, 2 * uint32, 4 * uint32)),
                      bufloc_iids |-> BufferLocation_load(Slice(mm, 4 * uint32, 6 * uint32)),
                      bufloc_meta |-> BufferLocation_load(Slice(mm, 6 * uint32, 8 * uint32)),
                      bufloc_groups |-> BufferLocation_load(Slice(mm, 8 * uint32, 10 * uint32)),
                      bufloc_segs |-> BufferLocation_load(Slice(mm, 10 * uint32, 12 * uint32))]]

\* Header.dump
Header_dump(h) ==
    pack_I(IF h.version # 0 THEN h.version ELSE 0)
    \o pack_I(IF h.version # 0 THEN h.rformat ELSE 0)
    \o BufferLocation_dump(h.bufloc_lut) \o BufferLocation_dump(h.bufloc_iids)
    \o BufferLocation_dump(h.bufloc_meta) \o BufferLocation_dump(h.bufloc_groups)
    \o BufferLocation_dump(h.bufloc_segs)

\* Header.update
Header_update(h, bl) ==
    [h EXCEPT !.bufloc_lut = Get(bl.lut), !.bufloc_iids = Get(bl.iids),
              !.bufloc_meta = Get(bl.meta), !.bufloc_groups = Get(bl.groups),
              !.bufloc_segs = Get(bl.segs)]

(***************************************************************************)
(* Segments.dump / IIDs.dump / LookupTable.dump / IIDFile.dump             *)
(***************************************************************************)
RECURSIVE Segments_dump_from(_, _, _, _)
\* After the dump r of the segment of slot i, the segments of the next slots
Segments_dump_next(ents, i, offset, buffer, r) ==
    IF r.err # "" THEN [err |-> r.err, buf |-> buffer, entries |-> ents]
    ELSE Segments_dump_from(WithSeg(ents, i, r.seg), i + 1, offset + Len(r.buf),
                            buffer \o r.buf)

\* The loop of Segments.dump from slot i: [err, buf, entries].  Each
\* segment dumped has its bufloc rewritten as the loop goes.
Segments_dump_from(ents, i, offset, buffer) ==
    IF i > Len(ents) THEN [err |-> "", buf |-> buffer, entries |-> ents]
    ELSE IF IsNone(ents[i]) THEN [err |-> "AttributeError", buf |-> buffer, entries |-> ents]
    ELSE Segments_dump_next(ents, i, offset, buffer, Segment_dump(Get(ents[i]).seg, offset))

\* Segments.dump: [err, buf, entries]
Segments_dump(ents) == Segments_dump_from(ents, 1, 0, <<>>)

RECURSIVE IIDs_dump_from(_, _, _, _)
\* After the dump r of the IID of slot i, the IIDs of the next slots
IIDs_dump_next(ents, i, offset, buffer, r) ==
    IIDs_dump_from(WithIid(ents, i, r.iid), i + 1, offset + Len(r.buf), buffer \o r.buf)

\* The loop of IIDs.dump from slot i: [err, buf, entries]
IIDs_dump_from(ents, i, offset, buffer) ==
    IF i > Len(ents) THEN [err |-> "", buf |-> buffer, entries |-> ents]
    ELSE IF IsNone(ents[i]) THEN [err |-> "AttributeError", buf |-> buffer, entries |-> ents]
    ELSE IIDs_dump_next(ents, i, offset, buffer, IID_dump(Get(ents[i]).iid, offset))

\* IIDs.dump: [err, buf, entries]
IIDs_dump(ents) == IIDs_dump_from(ents, 1, 0, <<>>)

\* LookupTable.dump (every slot populated, as Segments.dump has passed)
LookupTable_dump(ents) ==
    Join([i \in 1..Len(ents) |-> LookupTableEntry_dump(Get(ents[i]))])

\* A layout that places the metadata block before the identifier block while
\* the buffer keeps the identifiers first
Dump_bufloc_MetaFirst(lut, iids, meta, grps, segs) ==
    [lut |-> Some(BufferLocation(Header_length, lut)),
     meta |-> Some(BufferLocation(Header_length + lut, meta)),
     iids |-> Some(BufferLocation(Header_length + lut + meta, iids)),
     groups |-> Some(BufferLocation(Header_length + lut + iids + meta, grps)),
     segs |-> Some(BufferLocation(Header_length + lut + iids + meta + grps, segs))]

\* Lines 82-96 of dump: the buffer locations of the five blocks of the given
\* lengths, laid out after the header
Dump_bufloc(lut, iids, meta, grps, segs) ==
    [lut |-> Some(BufferLocation(Header_length, lut)),
     iids |-> Some(BufferLocation(Header_length + lut, iids)),
     meta |-> Some(BufferLocation(Header_length + lut + iids, meta)),
     groups |-> Some(BufferLocation(Header_length + lut + iids + meta, grps)),
     segs |-> Some(BufferLocation(Header_length + lut + iids + meta + grps, segs))]

\* Lines 99-103 of dump: the header is updated and the buffer assembled
Dump_buffer(hdr, segs, grps, iids, lut, bl2) ==
    [err |-> "",
     buffer |-> Header_dump(Header_update(hdr, bl2)) \o lut \o iids.buf \o Metadata_dump
                \o grps.buf \o segs.buf,
     entries |-> iids.entries, bufloc |-> bl2, header |-> Header_update(hdr, bl2)]

\* dump once the IIDs are dumped, with the lookup table dumped after them
Dump_iids(hdr, segs, grps, iids) ==
    Dump_buffer(hdr, segs, grps, iids, LookupTable_dump(iids.entries),
                Dump_bufloc(Len(LookupTable_dump(iids.entries)), Len(iids.buf),
                            Len(Metadata_dump), Len(grps.buf), Len(segs.buf)))

\* dump once the groups are dumped
Dump_groups(hdr, bl, segs, grps) ==
    IF grps.err # ""
    THEN [err |-> grps.err, buffer |-> <<>>, entries |-> segs.entries,
          bufloc |-> bl, header |-> hdr]
    ELSE Dump_iids(hdr, segs, grps, IIDs_dump(segs.entries))

\* dump once the segments are dumped
Dump_segs(groups_, hdr, bl, segs) ==
    IF segs.err # ""
    THEN [err |-> segs.err, buffer |-> <<>>, entries |-> segs.entries,
          bufloc |-> bl, header |-> hdr]
    ELSE Dump_groups(hdr, bl, segs, Groups_dump(groups_))

\* IIDFile.dump: [err, buffer, entries, bufloc, header].  On an error the
\* assignments made before it stay: entries carries them.
IIDFile_dump(ents, groups_, hdr, bl) == Dump_segs(groups_, hdr, bl, Segments_dump(ents))

(***************************************************************************)
(* LookupTable.load / IIDs.load / IIDFile.__init__(fpath, groups)          *)
(***************************************************************************)
\* LookupTableEntry(key=key, buffer=mmap[o:o + length]) of LookupTable.load
LutRecord(mm, offset, key) ==
    Slice(mm, offset + key * LookupTableEntry_length,
          offset + key * LookupTableEntry_length + LookupTableEntry_length)

\* LookupTable.load(keys): [err, entries]; keys is None or Some(list).  With
\* keys given only those slots are populated.  A record cut short by the end
\* of the file does not unpack.
LookupTable_load(mm, bl, keys) ==
    LET num_entries == bl.length \div LookupTableEntry_length
        wanted == IF Truthy(keys) THEN SetOf(Get(keys)) ELSE 0..(num_entries - 1)
    IN IF \E k \in wanted : Len(LutRecord(mm, bl.offset, k)) < LookupTableEntry_length
       THEN [err |-> "struct.error", entries |-> <<>>]
       ELSE IF \E k \in wanted : k >= num_entries
       THEN [err |-> "IndexError", entries |-> <<>>]
       ELSE [err |-> "",
             entries |-> [i \in 1..num_entries |->
                            IF (i - 1) \in wanted
                            THEN Some(LookupTableEntry_load(i - 1, LutRecord(mm, bl.offset, i - 1)))
                            ELSE None]]

RECURSIVE IIDs_load_from(_, _, _, _)
\* After the load r of the IID of slot i, the IIDs of the next slots
IIDs_load_next(mm, offset, ents, i, r) ==
    IF r.err # "" THEN [err |-> r.err, entries |-> ents]
    ELSE IIDs_load_from(mm, offset, WithIid(ents, i, r.iid), i + 1)

\* The loop of IIDs.load from slot i: [err, entries]
IIDs_load_from(mm, offset, ents, i) ==
    IF i > Len(ents) THEN [err |-> "", entries |-> ents]
    ELSE IF IsNone(ents[i]) THEN IIDs_load_from(mm, offset, ents, i + 1)
    ELSE IIDs_load_next(mm, offset, ents, i,
            IID_load(Get(ents[i]).iid, BlockBuf(mm, Get(Get(ents[i]).iid.bufloc), offset)))

\* The constructor raises e
Open_failed(e) == [err |-> e, header |-> Header_new, groups |-> <<>>, entries |-> <<>>]

\* __init__ once IIDs(self) has loaded the identifiers
Open_iids(h, g, i) ==
    IF i.err # "" THEN Open_failed(i.err)
    ELSE [err |-> "", header |-> h.header, groups |-> g.entries, entries |-> i.entries]

\* __init__ once LookupTable(self, keys) has loaded the table
Open_lut(mm, h, g, l) ==
    IF l.err # "" THEN Open_failed(l.err)
    ELSE Open_iids(h, g, IIDs_load_from(mm, h.header.bufloc_iids.offset, l.entries, 1))

\* __init__ once self.groups._keys(groups) has given the keys k
Open_keys(mm, groups_, h, g, k) ==
    IF k.err # "" THEN Open_failed(k.err)
    ELSE Open_lut(mm, h, g,
            LookupTable_load(mm, h.header.bufloc_lut,
                             IF Truthy(groups_) THEN Some(SetOrder(k.keys)) ELSE None))

\* __init__ once Groups(self) has loaded the groups
Open_groups(mm, groups_, h, g) ==
    IF g.err # "" THEN Open_failed(g.err)
    ELSE Open_keys(mm, groups_, h, g,
            IF Truthy(groups_) THEN Groups_keys(g.entries, Get(groups_))
            ELSE [err |-> "", keys |-> {}])

\* __init__ once Header(self) has loaded the header
Open_header(mm, groups_, h) ==
    IF h.err # "" THEN Open_failed(h.err)
    ELSE IF Metadata_load(BufferLocation_buf(mm, h.header.bufloc_meta)) # ""
         THEN Open_failed(Metadata_load(BufferLocation_buf(mm, h.header.bufloc_meta)))
    ELSE Open_groups(mm, groups_, h, Groups_load(mm, h.header.bufloc_groups))

\* IIDFile(fpath, groups): [err, header, groups, entries] read from the
\* bytes mm of the file; groups_ is None or Some(list of names).  mmap
\* refuses an empty file (ValueError).
IIDFile_open(mm, groups_) ==
    IF Len(mm) = 0 THEN Open_failed("ValueError")
    ELSE Open_header(mm, groups_, Header_load(mm))

(***************************************************************************)
(* Inputs of the calls.                                                    *)
(***************************************************************************)
\* The group name "A"
NameA == <<65>>

\* A segment with no region and area 0
SegEmpty == [bbox |-> <<0, 0, 1, 1>>, area |-> 0, regions |-> <<>>]

\* Bbox (0,0,2,2), area 3, one region with mask [[1,1],[1,0]]
SegOne == [bbox |-> <<0, 0, 2, 2>>, area |-> 3,
           regions |-> << Region(<< <<1, 1>>, <<1, 0>> >>, <<0, 0, 2, 2>>) >>]

\* IIDFile.add(IID(iid, domain), seg, group): iid b"x" without domain, and
\* iid b"y" with domain b"d"
AddInputs ==
    { [iid |-> Some(<<120>>), domain |-> None, seg |-> SegEmpty],
      [iid |-> Some(<<121>>), domain |-> Some(<<100>>), seg |-> SegOne] }

AddGroups == {None, Some(NameA)}

\* groups.add(name, keys)
GroupsAddNames == {NameA}

GroupsAddKeys == {None, Some(<<0>>), Some(<<0 - 1>>), Some(<<MaxEntries>>)}

\* An int key as the keys argument of fetch
IntKey(k) == Some([isint |-> TRUE, list |-> <<k>>])

\* fetch(keys, all_keys, groups, iids, segs, everything), every combination
\* of the selectors
AllFetchArgs ==
    {FetchArgs(k, FALSE, None, i, s, FALSE) :
        k \in {None, IntKey(0), IntKey(0 - 1), IntKey(MaxEntries), Some([isint |-> FALSE, list |-> <<0, 1>>])},
        i \in BOOLEAN, s \in BOOLEAN}
    \cup {FetchArgs(k, TRUE, None, i, s, FALSE) :
        k \in {None, IntKey(0)}, i \in BOOLEAN, s \in BOOLEAN}
    \cup {FetchArgs(k, al, Some(<<NameA>>), i, s, FALSE) :
        k \in {None, IntKey(MaxEntries)}, al \in BOOLEAN, i \in BOOLEAN, s \in BOOLEAN}
    \cup {FetchArgs(k, FALSE, g, FALSE, FALSE, TRUE) :
        k \in {None, IntKey(0)}, g \in {None, Some(<<NameA>>)}}

\* The fetch calls the caller makes: one key, all keys, a group, everything
FetchInputs ==
    {FetchArgs(IntKey(0), FALSE, None, i, s, FALSE) : i \in BOOLEAN, s \in BOOLEAN}
    \cup {FetchArgs(None, TRUE, None, i, s, FALSE) : i \in BOOLEAN, s \in BOOLEAN}
    \cup {FetchArgs(None, FALSE, Some(<<NameA>>), FALSE, FALSE, FALSE),
          FetchArgs(None, FALSE, None, FALSE, FALSE, TRUE)}

\* find(iids, groups, domains, segs)
FindInputs ==
    {[iids |-> << <<121>> >>, groups |-> g, domains |-> d, segs |-> FALSE] :
        g \in {None, Some(<<NameA>>)}, d \in {None, Some(<< <<100>> >>)}}

\* filter(groups, area, domains, segs)
FilterInputs ==
    {[groups |-> None, area |-> a, domains |-> None, segs |-> FALSE] :
        a \in {None, Some(<<None, Some(5)>>), Some(<<Some(0), None>>),
               Some(<<Some(0), Some(3)>>)}}
    \cup {[groups |-> Some(<<NameA>>), area |-> None, domains |-> Some(<< <<100>> >>),
           segs |-> FALSE]}

\* groups.get(groups, segs)
GroupsGetInputs == {[groups |-> <<NameA>>, segs |-> FALSE]}

\* IIDFile(fpath, groups)
OpenGroups == {None, Some(<<NameA>>)}

(***************************************************************************)
(* The calls.                                                              *)
(***************************************************************************)
Ret(op, args, err, val) == [op |-> op, args |-> args, err |-> err, val |-> val]

NoCall == Ret("none", <<>>, "", <<>>)

\* The caller is between two calls.
Idle == ret.op = "none"

\* The history after a call on the instance: it is no longer fresh from its
\* constructor.
Called(h) == [h EXCEPT !.fresh = FALSE]

Init ==
    /\ disk = [p \in Paths |-> None]
    /\ exists = FALSE
    /\ mmap = None
    /\ blockmap = None
    /\ header = Header_new
    /\ bufloc = [lut |-> None, iids |-> None, meta |-> None, groups |-> None, segs |-> None]
    /\ entries = <<>>
    /\ fetched = {}
    /\ groups = <<>>
    /\ ret = NoCall
    /\ hist = [added |-> <<>>, src |-> None, filter |-> None, fresh |-> TRUE,
               saved |-> [p \in Paths |-> None]]

\* IIDFile.add once the entry is in the table ents and the group is added
\* with result g
Added(inp, grp, ents, g) ==
    /\ entries' = ents
    /\ groups' = g.groups
    /\ ret' = Ret("add", [input |-> inp, group |-> grp], g.err, <<>>)
    /\ hist' = [Called(hist) EXCEPT !.added = Append(hist.added, inp)]
    /\ UNCHANGED << disk, exists, mmap, blockmap, header, bufloc, fetched >>

\* Lines 127-128 of IIDFile.add on the table ents that holds the new entry
Add_group(inp, grp, ents) ==
    Added(inp, grp, ents,
          IF Truthy(grp) THEN Groups_add(groups, ents, Get(grp), Some(<<Len(entries)>>))
          ELSE [err |-> "", groups |-> groups])

\* IIDFile.add(IID(iid, domain), seg, group)
Add(inp, grp) ==
    /\ Idle
    /\ Len(entries) < MaxEntries
    /\ Add_group(inp, grp, LookupTable_add(entries, inp.iid, inp.domain, inp.seg))

\* groups.add has ended with result g
GroupsAdded(name, keys, g) ==
    /\ groups' = g.groups
    /\ ret' = Ret("groups.add", [name |-> name, keys |-> keys], g.err, <<>>)
    /\ hist' = Called(hist)
    /\ UNCHANGED << disk, exists, mmap, blockmap, header, bufloc, entries, fetched >>

\* groups.add(name, keys)
GroupsAdd(name, keys) ==
    /\ Idle
    /\ GroupsAdded(name, keys, Groups_add(groups, entries, name, keys))

\* A call op(a) that reads entries has ended with r = [err, entries, fetched,
\* val]: the entries it loaded and the keys it recorded stay.
Returned(op, a, r) ==
    /\ entries' = r.entries
    /\ fetched' = r.fetched
    /\ ret' = Ret(op, a, r.err, r.val)
    /\ hist' = Called(hist)
    /\ UNCHANGED << disk, exists, mmap, blockmap, header, bufloc, groups >>

\* fetch(keys, all_keys, groups, iids, segs, everything)
Fetch(a) ==
    /\ Idle
    /\ Returned("fetch", a, IIDFile_fetch(entries, fetched, a))

\* find(iids, groups, domains, segs)
Find(a) ==
    /\ Idle
    /\ Returned("find", a, IIDFile_find(entries, fetched, a))

\* filter(groups, area, domains, segs)
Filter(a) ==
    /\ Idle
    /\ Returned("filter", a, IIDFile_filter(entries, fetched, a))

\* groups.get(groups, segs=segs)
GroupsGet(a) ==
    /\ Idle
    /\ Returned("groups.get", a, Groups_get(entries, fetched, a.groups, a.segs))

\* The path save is called with: the first path for an instance created
\* empty, the path after its own for an instance opened from a file.
NextPath == IF IsNone(hist.src) THEN 1 ELSE Get(hist.src) + 1

\* save(p) once dump() has ended with d: the file holds what was written,
\* self.file and self.mmap are switched only after the write.
Saved(p, d) ==
    /\ disk' = [disk EXCEPT ![p] = Some(d.buffer)]
    /\ entries' = d.entries
    /\ bufloc' = d.bufloc
    /\ header' = d.header
    /\ mmap' = IF d.err = "" THEN Some(p) ELSE mmap
    /\ ret' = Ret("save",
                  [fpath |-> p,
                   reopened |-> IF hist.fresh /\ IsNone(hist.filter) THEN hist.src ELSE None],
                  d.err, <<>>)
    /\ hist' = [Called(hist) EXCEPT
                  !.saved[p] = IF d.err # "" THEN None
                               ELSE Some([log |-> IF IsNone(hist.src)
                                                  THEN Some(hist.added) ELSE None,
                                          groups |-> groups])]
    /\ UNCHANGED << exists, blockmap, fetched, groups >>

\* save(fpath): open(fpath, "w+b") creates the file before dump() runs, so a
\* dump that raises leaves it empty.
Save ==
    /\ Idle
    /\ NextPath \in Paths /\ IsNone(disk[NextPath])
    /\ Saved(NextPath, IIDFile_dump(entries, groups, header, bufloc))

\* IIDFile(p, g) has ended with r: the instance of the model becomes the new
\* one; when the constructor raises, the old one stays.
Opened(p, g, r) ==
    /\ ret' = Ret("IIDFile", [fpath |-> Some(p), groups |-> g], r.err, <<>>)
    /\ IF r.err # ""
       THEN UNCHANGED << exists, mmap, blockmap, header, bufloc, entries, fetched,
                         groups, hist >>
       ELSE /\ exists' = TRUE
            /\ mmap' = Some(p)
            /\ blockmap' = Some(p)
            /\ header' = r.header
            /\ bufloc' = [lut |-> Some(r.header.bufloc_lut),
                          iids |-> Some(r.header.bufloc_iids),
                          meta |-> Some(r.header.bufloc_meta),
                          groups |-> Some(r.header.bufloc_groups),
                          segs |-> Some(r.header.bufloc_segs)]
            /\ entries' = r.entries
            /\ fetched' = {}
            /\ groups' = r.groups
            /\ hist' = [hist EXCEPT !.added = <<>>, !.src = Some(p), !.filter = g,
                                    !.fresh = TRUE]
    /\ UNCHANGED disk

\* IIDFile(fpath, groups) on a file that exists
Open(p, g) ==
    /\ Idle
    /\ ~IsNone(disk[p])
    /\ Opened(p, g, IIDFile_open(Mapped(p), g))

\* The caller takes the result of the call that has ended.
Return ==
    /\ ~Idle
    /\ ret' = NoCall
    /\ UNCHANGED << disk, exists, mmap, blockmap, header, bufloc, entries, fetched, groups,
                    hist >>

Next ==
    \/ \E inp \in AddInputs, grp \in AddGroups : Add(inp, grp)
    \/ \E name \in GroupsAddNames, keys \in GroupsAddKeys : GroupsAdd(name, keys)
    \/ \E a \in FetchInputs : Fetch(a)
    \/ \E a \in FindInputs : Find(a)
    \/ \E a \in FilterInputs : Filter(a)
    \/ \E a \in GroupsGetInputs : GroupsGet(a)
    \/ Save
    \/ \E p \in Paths, g \in OpenGroups : Open(p, g)
    \/ Return

Spec == Init /\ [][Next]_vars

(***************************************************************************)
(* The round trip of entries: an instance created empty, adds, save,       *)
(* reopen, fetch(everything=True).                                         *)
(***************************************************************************)
\* IIDFile.add(IID(iid, domain), seg): identifier b"" with the empty segment
\* or b"\x00\xff" with the one-region segment, domain absent, b"" or b"d"
RoundTripInputs ==
    {[iid |-> Some(i), domain |-> d, seg |-> IF i = <<>> THEN SegEmpty ELSE SegOne] :
        i \in {<<>>, <<0, 255>>},
        d \in {None, Some(<<>>), Some(<<100>>)}}

EverythingArgs == FetchArgs(None, FALSE, None, FALSE, FALSE, TRUE)

NextRT ==
    \/ \E inp \in RoundTripInputs : Add(inp, None)
    \/ Save
    \/ \E p \in Paths : Open(p, None)
    \/ Fetch(EverythingArgs)
    \/ Return

SpecRT == Init /\ [][NextRT]_vars

(***************************************************************************)
(* Properties                                                              *)
(***************************************************************************)
\* The keys of the populated slots of the lookup table
LiveKeys(ents) == {i - 1 : i \in {j \in 1..Len(ents) : ~IsNone(ents[j])}}

\* The keys of the entries a call has returned
KeysOf(val) == {Get(val[j]).key : j \in {i \in 1..Len(val) : ~IsNone(val[i])}}

\* fetch(everything=True) has ended on an instance opened, without a groups
\* filter, from a file that an instance created empty has saved, and no
\* entry was added since the open.
ReopenedFetch ==
    /\ ret.op = "fetch" /\ ret.args.everything
    /\ ~IsNone(hist.src) /\ IsNone(hist.filter) /\ hist.added = <<>>
    /\ ~IsNone(hist.saved[Get(hist.src)])
    /\ ~IsNone(Get(hist.saved[Get(hist.src)]).log)

\* The adds that wrote the file the instance was opened from
SavedLog == Get(Get(hist.saved[Get(hist.src)]).log)

\* The fetch has returned one entry per add, in add order, with the key,
\* identifier bytes, bbox and area of the add.
SameButDomain(log, val) ==
    /\ ret.err = ""
    /\ Len(entries) = Len(log)
    /\ Len(val) = Len(log)
    /\ \A i \in 1..Len(log) :
        /\ i <= Len(val) /\ ~IsNone(val[i])
        /\ Get(val[i]).key = i - 1
        /\ Get(val[i]).iid.iid = log[i].iid
        /\ Get(val[i]).seg.bbox = Some(log[i].seg.bbox)
        /\ Get(val[i]).seg.area = Some(log[i].seg.area)

\* C1 (as stated): after n adds on an instance created empty, save and reopen,
\* the file has n entries with keys 0..n-1 in add order, and entry i has the
\* identifier bytes, domain bytes, bbox and area of the i-th add, the domain
\* being absent, empty or non-empty.
C1_RoundTripAsStated ==
    ReopenedFetch =>
        /\ SameButDomain(SavedLog, ret.val)
        /\ \A i \in 1..Len(SavedLog) :
            i <= Len(ret.val) /\ ~IsNone(ret.val[i])
                => Get(ret.val[i]).iid.domain = SavedLog[i].domain

\* C1 (amended): the same round trip, except that an empty domain b"" is read
\* back as an absent domain; absent and non-empty domains are read back as
\* they were added.
C1_RoundTrip ==
    ReopenedFetch =>
        /\ SameButDomain(SavedLog, ret.val)
        /\ \A i \in 1..Len(SavedLog) :
            Get(ret.val[i]).iid.domain =
                IF SavedLog[i].domain = Some(<<>>) THEN None ELSE SavedLog[i].domain

\* C1 witness: a reopened file of MaxEntries entries, one added with an empty
\* domain and one with a non-empty domain, has been fetched.
C1_Witness ==
    /\ ReopenedFetch /\ ret.err = ""
    /\ Len(SavedLog) = MaxEntries /\ Len(ret.val) = MaxEntries
    /\ \E i \in 1..Len(SavedLog) : SavedLog[i].domain = Some(<<>>)
    /\ \E i \in 1..Len(SavedLog) : SavedLog[i].domain = Some(<<100>>)
    /\ \E i \in 1..Len(SavedLog) : SavedLog[i].seg = SegOne

\* C2: keys are dense, monotone and immutable: every populated slot
\* lut.entries[k] holds an entry whose key, iid.key and seg.key all equal k,
\* in every reachable state.
C2_KeysDense ==
    \A i \in 1..Len(entries) :
        ~IsNone(entries[i]) =>
            /\ Get(entries[i]).key = i - 1
            /\ Get(entries[i]).iid.key = i - 1
            /\ Get(entries[i]).seg.key = i - 1

\* The names of a groups argument all name groups with a key set
GroupsKnown(names) ==
    \A j \in 1..Len(names) :
        /\ GroupIndex(groups, names[j]) # 0
        /\ ~IsNone(groups[GroupIndex(groups, names[j])].keys_set)

\* The key set fetch is specified to resolve its arguments to: everything,
\* then groups, then all_keys, then the explicit keys.
Resolved(a) ==
    IF a.everything THEN LiveKeys(entries)
    ELSE IF Truthy(a.groups)
         THEN UNION {Get(groups[GroupIndex(groups, Get(a.groups)[j])].keys_set) :
                        j \in 1..Len(Get(a.groups))}
    ELSE IF a.all_keys THEN LiveKeys(entries)
    ELSE IF IsNone(a.keys) THEN {}
    ELSE {Get(a.keys).list[j] : j \in 1..Len(Get(a.keys).list)}

\* C3: fetch resolves its key set by the precedence everything > groups >
\* all_keys > explicit keys and returns exactly one entry per key of the
\* resolved set (with iid and segment loaded under everything), in a file
\* just opened, with or without a groups filter.
C3_FetchPrecedence ==
    ( /\ ret.op = "fetch"
      /\ ~IsNone(hist.src) /\ hist.added = <<>>
      /\ (Truthy(ret.args.groups) /\ ~ret.args.everything => GroupsKnown(Get(ret.args.groups)))
      /\ Resolved(ret.args) \subseteq LiveKeys(entries) )
    => /\ ret.err = ""
       /\ Len(ret.val) = Cardinality(Resolved(ret.args))
       /\ \A j \in 1..Len(ret.val) : ~IsNone(ret.val[j])
       /\ KeysOf(ret.val) = Resolved(ret.args)
       /\ ret.args.everything =>
            \A j \in 1..Len(ret.val) :
                /\ ~IsNone(Get(ret.val[j]).iid.iid)
                /\ ~IsNone(Get(ret.val[j]).seg.regions)

\* The results once and twice of two fetches in a row are the same.
SameFetch(once, twice) ==
    /\ twice.entries = once.entries
    /\ twice.fetched = once.fetched
    /\ twice.err = once.err
    /\ twice.val = once.val

\* The fetch(a) after a fetch(a) that ended with once repeats it.
FetchAgain(a, once) == SameFetch(once, IIDFile_fetch(once.entries, once.fetched, a))

\* A second fetch(a) after a first one changes nothing and returns the same
\* as the first.
FetchTwice(a) == FetchAgain(a, IIDFile_fetch(entries, fetched, a))

\* C4: fetching is idempotent: in every reachable state and for every
\* selector arguments, a second fetch with the arguments of the first leaves
\* every entry (iid, domain, bbox, area, region list) and lut.fetched as the
\* first left them and returns the same entries; the fetch that has just
\* ended, repeated, returns what it returned.
C4_FetchIdempotent ==
    /\ Idle => \A a \in AllFetchArgs : FetchTwice(a)
    /\ ret.op = "fetch" =>
        SameFetch([entries |-> entries, fetched |-> fetched, err |-> ret.err, val |-> ret.val],
                  IIDFile_fetch(entries, fetched, ret.args))

\* C4 witness: a segment fetch on an opened file has returned an entry whose
\* region list holds the one region of its segment.
C4_Witness ==
    /\ ret.op = "fetch" /\ ret.args.segs /\ ret.err = ""
    /\ ~IsNone(hist.src)
    /\ \E j \in 1..Len(ret.val) :
        /\ ~IsNone(ret.val[j])
        /\ Get(ret.val[j]).seg.regions = Some(SegOne.regions)
        /\ Get(ret.val[j]).key \in fetched

\* The keys that are not live: negative, past the last slot, or of an
\* unpopulated slot
DeadKeys == ({0 - 1, MaxEntries} \cup (0..(MaxEntries - 1))) \ LiveKeys(entries)

\* The fetch has failed as an unknown key does: no entry, nothing recorded.
FailedUnknown(r) == r.err = "IndexError" /\ r.val = <<>> /\ r.fetched = fetched

\* C5: fetch with an explicit key that is not a live key fails (UnknownKey,
\* here IndexError), for every combination of iids and segs; it returns no
\* entry or placeholder and does not record the key in lut.fetched.
C5_UnknownKey ==
    Idle =>
        \A k \in DeadKeys, i \in BOOLEAN, s \in BOOLEAN :
            FailedUnknown(IIDFile_fetch(entries, fetched,
                                        FetchArgs(IntKey(k), FALSE, None, i, s, FALSE)))

\* The entries find is specified to return: those of the named groups (all
\* when no group is named) whose identifier is among iids and, when domains
\* are given, whose domain is among them
FindExpected(a) ==
    {k \in LiveKeys(entries) :
        /\ Truthy(a.groups) => k \in Resolved(FetchArgs(None, FALSE, a.groups, FALSE, FALSE, FALSE))
        /\ IidIn(Get(entries[k + 1]), a.iids)
        /\ Truthy(a.domains) => DomainIn(Get(entries[k + 1]), Get(a.domains))}

\* C6: find(iids, groups, domains) returns exactly the matching entries, in
\* an instance created empty whose entries were added in memory.
C6_FindExact ==
    ( /\ ret.op = "find"
      /\ IsNone(hist.src) /\ hist.added # <<>>
      /\ (Truthy(ret.args.groups) => GroupsKnown(Get(ret.args.groups))) )
    => /\ ret.err = ""
       /\ KeysOf(ret.val) = FindExpected(ret.args)
       /\ Len(ret.val) = Cardinality(FindExpected(ret.args))

\* The entries filter(area=(min, max)) is specified to return: the
\* candidates whose area is strictly between the bounds, a None bound
\* imposing nothing
FilterExpected(a) ==
    {k \in LiveKeys(entries) :
        /\ Truthy(a.groups) => k \in Resolved(FetchArgs(None, FALSE, a.groups, FALSE, FALSE, FALSE))
        /\ Truthy(a.domains) => DomainIn(Get(entries[k + 1]), Get(a.domains))
        /\ ~IsNone(a.area) =>
            /\ IsNone(Get(a.area)[1]) \/ Get(Get(a.area)[1]) < Get(Get(entries[k + 1]).seg.area)
            /\ IsNone(Get(a.area)[2]) \/ Get(Get(entries[k + 1]).seg.area) < Get(Get(a.area)[2])}

\* C7: filter(area=(min, max)) that returns, returns exactly the candidates
\* with min < area < max, a bound given as None being ignored: with
\* (None, max) the entries of area 0 are returned too.
C7_FilterArea ==
    ( /\ ret.op = "filter" /\ ret.err = ""
      /\ ~IsNone(ret.args.area) )
    => /\ KeysOf(ret.val) = FilterExpected(ret.args)
       /\ Len(ret.val) = Cardinality(FilterExpected(ret.args))

\* C8: groups.add(name, keys) with a key that is not the key of an existing
\* entry fails, and every key of every group's key set is the index of an
\* entry of the lookup table.
C8_NoDanglingKeys ==
    /\ ( /\ ret.op = "groups.add" /\ Truthy(ret.args.keys)
         /\ \E j \in 1..Len(Get(ret.args.keys)) :
                Get(ret.args.keys)[j] \notin LiveKeys(entries) )
       => ret.err # ""
    /\ \A g \in 1..Len(groups) :
        ~IsNone(groups[g].keys_set) => Get(groups[g].keys_set) \subseteq 0..(Len(entries) - 1)

\* The key set of a group, empty for a group created with no keys
OrNoKeys(o) == IF IsNone(o) THEN {} ELSE Get(o)

\* C9: with groups created through groups.add, with any number of keys and
\* with none, save succeeds, and the reopened file lists each group with the
\* key set it had.
C9_GroupRoundTrip ==
    /\ (ret.op = "save" /\ IsNone(hist.src)) => ret.err = ""
    /\ ( /\ ret.op = "IIDFile" /\ ret.err = "" /\ IsNone(hist.filter)
         /\ ~IsNone(hist.saved[Get(hist.src)]) )
       => LET saved == Get(hist.saved[Get(hist.src)]).groups
          IN /\ Len(groups) = Len(saved)
             /\ \A g \in 1..Len(saved) :
                 /\ GroupIndex(groups, saved[g].name) # 0
                 /\ groups[GroupIndex(groups, saved[g].name)].keys_set
                        = Some(OrNoKeys(saved[g].keys_set))

\* C10: IIDFile(p1).save(p2) with no operation between the open and the save
\* succeeds and writes p2 byte-equal to p1.
C10_ResaveByteStable ==
    (ret.op = "save" /\ ~IsNone(ret.args.reopened))
    => /\ ret.err = ""
       /\ disk[ret.args.fpath] = disk[Get(ret.args.reopened)]

(***************************************************************************)
(* The layout of a saved file                                              *)
(***************************************************************************)
\* The bytes of the file the save that has ended has written
SavedFile == Get(disk[ret.args.fpath])

\* The header read back from those bytes
SavedHeader == Header_load(SavedFile).header

\* The end of a block
BlockEnd(bl) == bl.offset + bl.length

\* C11: after every successful save the file is header, LUT, IIDs, Metadata,
\* Groups, Segments in that order: the LUT starts at offset 48, each block
\* starts where the one before ends, the five (offset, length) pairs of the
\* header are the positions of the blocks of the instance and hold their
\* bytes, 48 plus the five lengths is the file size, and the LUT length is
\* 20 times the number of slots.
C11_Layout ==
    (ret.op = "save" /\ ret.err = "") =>
        /\ Header_load(SavedFile).err = ""
        /\ SavedHeader.bufloc_lut.offset = 48
        /\ SavedHeader.bufloc_iids.offset = BlockEnd(SavedHeader.bufloc_lut)
        /\ SavedHeader.bufloc_meta.offset = BlockEnd(SavedHeader.bufloc_iids)
        /\ SavedHeader.bufloc_groups.offset = BlockEnd(SavedHeader.bufloc_meta)
        /\ SavedHeader.bufloc_segs.offset = BlockEnd(SavedHeader.bufloc_groups)
        /\ BlockEnd(SavedHeader.bufloc_segs) = Len(SavedFile)
        /\ 48 + SavedHeader.bufloc_lut.length + SavedHeader.bufloc_iids.length
              + SavedHeader.bufloc_meta.length + SavedHeader.bufloc_groups.length
              + SavedHeader.bufloc_segs.length = Len(SavedFile)
        /\ SavedHeader.bufloc_lut.length = 20 * Len(entries)
        /\ bufloc = [lut |-> Some(SavedHeader.bufloc_lut),
                     iids |-> Some(SavedHeader.bufloc_iids),
                     meta |-> Some(SavedHeader.bufloc_meta),
                     groups |-> Some(SavedHeader.bufloc_groups),
                     segs |-> Some(SavedHeader.bufloc_segs)]
        /\ BufferLocation_buf(SavedFile, SavedHeader.bufloc_lut) = LookupTable_dump(entries)
        /\ BufferLocation_buf(SavedFile, SavedHeader.bufloc_iids) = IIDs_dump(entries).buf
        /\ BufferLocation_buf(SavedFile, SavedHeader.bufloc_meta) = Metadata_dump
        /\ BufferLocation_buf(SavedFile, SavedHeader.bufloc_groups) = Groups_dump(groups).buf
        /\ BufferLocation_buf(SavedFile, SavedHeader.bufloc_segs) = Segments_dump(entries).buf

\* C11 witness: a save has written a file of MaxEntries entries, one of them
\* with a region, and a group with a key: no block is empty.
C11_Witness ==
    /\ ret.op = "save" /\ ret.err = ""
    /\ Len(entries) = MaxEntries
    /\ groups # <<>>
    /\ SavedHeader.bufloc_iids.length > 0
    /\ SavedHeader.bufloc_groups.length > 0
    /\ SavedHeader.bufloc_segs.length > 0
    /\ \E i \in 1..Len(entries) : Get(entries[i]).seg.regions = Some(SegOne.regions)

\* C12: a failed save leaves the in-memory state unchanged: when save raises,
\* every entry (with the buffer locations of its iid and segment), the
\* buffer location of every block, the header, the groups and the mappings
\* of the instance are what they were before the call.
C12_FailedSaveUnchanged ==
    [][ (ret'.op = "save" /\ ret'.err # "")
            => /\ entries' = entries
               /\ bufloc' = bufloc
               /\ header' = header
               /\ groups' = groups
               /\ mmap' = mmap
               /\ blockmap' = blockmap ]_vars

\* fetch(all_keys=True, iids, segs) with at least one of iids and segs
BlockFetchArgs ==
    {FetchArgs(None, TRUE, None, i, s, FALSE) : i \in BOOLEAN, s \in BOOLEAN}
    \ {FetchArgs(None, TRUE, None, FALSE, FALSE, FALSE)}

\* The identifier of slot i as the file just saved holds it
SavedIid(i) ==
    IID_load(Get(entries[i]).iid,
             BlockBuf(SavedFile, Get(Get(entries[i]).iid.bufloc), Get(bufloc.iids).offset)).iid

\* The segment of slot i as the file just saved holds it
SavedSeg(i) ==
    Segment_load(Get(entries[i]).seg,
                 BlockBuf(SavedFile, Get(Get(entries[i]).seg.bufloc), Get(bufloc.segs).offset)).seg

\* The fetch(a) that has ended with r has returned an entry for every key
\* and has read the identifiers and segments it loaded from the file just
\* saved.
ReadsSaved(a, r) ==
    /\ r.err = ""
    /\ Len(r.val) = Len(entries)
    /\ \A i \in 1..Len(entries) :
        /\ a.iids => Get(r.entries[i]).iid = SavedIid(i)
        /\ a.segs => Get(r.entries[i]).seg = SavedSeg(i)

\* C13: save switches the mapping for the whole instance: once save(p) has
\* returned, on an instance created empty or opened from another file, a
\* fetch of the identifiers and segments succeeds and materializes for each
\* key what save wrote for it in p.
C13_SaveSwitchesMapping ==
    (ret.op = "save" /\ ret.err = "") =>
        \A a \in BlockFetchArgs : ReadsSaved(a, IIDFile_fetch(entries, fetched, a))

(***************************************************************************)
(* Segment.buffer / Segment.from_buffer                                    *)
(***************************************************************************)
\* More segments than this are not built from buffers.
MaxBuffers == 1

\* A slice bound i on an axis of length n: negative bounds count from the
\* end, and the bound is clipped to the axis.
SliceBound(i, n) ==
    IF i < 0 THEN (IF i + n < 0 THEN 0 ELSE i + n) ELSE Min(i, n)

\* Segment.xywh on the bbox (minr, minc, maxr, maxc)
Segment_xywh(bbox) ==
    [x |-> bbox[2], y |-> bbox[1], w |-> bbox[4] - bbox[2], h |-> bbox[3] - bbox[1]]

\* The number of columns of a mask
Columns(mask) == IF mask = <<>> THEN 0 ELSE Len(mask[1])

\* buf[r0:r1, c0:c1] = mask of line 727: the window takes the values of the
\* mask, whatever it held; numpy repeats a mask of one row or one column and
\* refuses any other shape than that of the window.
Buffer_assign(buf, mask, r0, r1, c0, c1) ==
    IF /\ Len(mask) # (IF r1 > r0 THEN r1 - r0 ELSE 0) /\ Len(mask) # 1
       \/ /\ Columns(mask) # (IF c1 > c0 THEN c1 - c0 ELSE 0) /\ Columns(mask) # 1
    THEN [err |-> "ValueError", val |-> buf]
    ELSE [err |-> "",
          val |-> [r \in 1..Len(buf) |-> [c \in 1..Len(buf[r]) |->
                    IF r0 < r /\ r <= r1 /\ c0 < c /\ c <= c1
                    THEN mask[IF Len(mask) = 1 THEN 1 ELSE r - r0]
                             [IF Columns(mask) = 1 THEN 1 ELSE c - c0]
                    ELSE buf[r][c]]]]

RECURSIVE Buffer_stamp(_, _, _)
\* After the assignment a of one region, the regions that follow it
Buffer_next(a, regs, o) ==
    IF a.err # "" THEN a ELSE Buffer_stamp(a.val, Tail(regs), o)

\* The loop of lines 721-727 over the regions regs, on the buffer buf of a
\* segment of origin and size o
Buffer_stamp(buf, regs, o) ==
    IF regs = <<>> THEN [err |-> "", val |-> buf]
    ELSE Buffer_next(Buffer_assign(buf, Head(regs).mask,
                                   SliceBound(Head(regs).bbox[1] - o.y, o.h),
                                   SliceBound(Head(regs).bbox[3] - o.y, o.h),
                                   SliceBound(Head(regs).bbox[2] - o.x, o.w),
                                   SliceBound(Head(regs).bbox[4] - o.x, o.w)),
                     regs, o)

\* np.zeros((h, w)) and the loop of Segment.buffer
Buffer_zeros(regs, o) ==
    IF o.h < 0 \/ o.w < 0 THEN [err |-> "ValueError", val |-> <<>>]
    ELSE Buffer_stamp([r \in 1..o.h |-> [c \in 1..o.w |-> 0]], regs, o)

\* Segment.buffer(): [err, val], val the rows of the (h, w) buffer
Segment_buffer(seg) ==
    IF IsNone(seg.bbox) \/ IsNone(seg.regions) THEN [err |-> "TypeError", val |-> <<>>]
    ELSE Buffer_zeros(Get(seg.regions), Segment_xywh(Get(seg.bbox)))

\* The pixels (row, column), 1-based, at which a buffer is set
SetPixels(buffer) ==
    {p \in (1..Len(buffer)) \X (1..Columns(buffer)) : buffer[p[1]][p[2]] # 0}

\* Two pixels touch by a side or a corner (connectivity=2)
Touch(p, q) ==
    /\ p[1] - q[1] \in {0 - 1, 0, 1}
    /\ p[2] - q[2] \in {0 - 1, 0, 1}

RECURSIVE Component(_, _)
\* The connected component of the pixels comp among the pixels px
Component(comp, px) ==
    IF \E q \in px \ comp : \E p \in comp : Touch(p, q)
    THEN Component(comp \cup {q \in px : \E p \in comp : Touch(p, q)}, px)
    ELSE comp

\* The first pixel of px in the order of a scan by rows
FirstPixel(px) ==
    CHOOSE p \in px : \A q \in px : p[1] < q[1] \/ (p[1] = q[1] /\ p[2] <= q[2])

RECURSIVE label(_)
\* label(buffer, connectivity=2) on the set pixels px: the components in the
\* order of their labels, that of their first pixel in a scan by rows
label(px) ==
    IF px = {} THEN <<>>
    ELSE <<Component({FirstPixel(px)}, px)>> \o label(px \ Component({FirstPixel(px)}, px))

\* props.bbox of a component: (min_row, min_col, max_row, max_col), rows and
\* columns 0-based, the maxima exclusive
Props_bbox(comp) ==
    << (CHOOSE r \in {p[1] : p \in comp} : \A p \in comp : r <= p[1]) - 1,
       (CHOOSE c \in {p[2] : p \in comp} : \A p \in comp : c <= p[2]) - 1,
       CHOOSE r \in {p[1] : p \in comp} : \A p \in comp : r >= p[1],
       CHOOSE c \in {p[2] : p \in comp} : \A p \in comp : c >= p[2] >>

\* props.image of a component of bbox b: the pixels of the component alone
Props_image(comp, b) ==
    [r \in 1..(b[3] - b[1]) |-> [c \in 1..(b[4] - b[2]) |->
        IF <<b[1] + r, b[2] + c>> \in comp THEN 1 ELSE 0]]

\* Lines 743-752 of from_buffer: the region of a component of bbox b, placed
\* in the space of the segment of origin o
Props_region(comp, b, o) ==
    Region(Props_image(comp, b), <<b[1] + o.y, b[2] + o.x, b[3] + o.y, b[4] + o.x>>)

\* The regions of the components comps
Props_regions(comps, o) ==
    [i \in 1..Len(comps) |-> Props_region(comps[i], Props_bbox(comps[i]), o)]

\* Segment.from_buffer(buffer, bbox): the bbox, area and regions it sets
Segment_from_buffer(buffer, bbox) ==
    [bbox |-> bbox,
     area |-> Segment_xywh(bbox).w * Segment_xywh(bbox).h,
     regions |-> Props_regions(label(SetPixels(buffer)), Segment_xywh(bbox))]

\* The buffers given to from_buffer: every 3 x 3 mask
BufferMasks == [1..3 -> [1..3 -> {0, 1}]]

\* The bbox given to from_buffer, at the origin and away from it
BufferBoxes == {<<0, 0, 3, 3>>, <<1, 2, 4, 5>>}

\* Regions inside the bbox (0, 0, 2, 2): two that cover it, its first row and
\* its last pixel
RegionInputs ==
    { Region(<< <<1, 1>>, <<1, 0>> >>, <<0, 0, 2, 2>>),
      Region(<< <<0, 0>>, <<0, 1>> >>, <<0, 0, 2, 2>>),
      Region(<< <<1, 1>> >>, <<0, 0, 1, 2>>),
      Region(<< <<1>> >>, <<1, 1, 2, 2>>) }

\* The ordered lists of at most two of these regions
RegionLists ==
    {<<>>} \cup {<<a>> : a \in RegionInputs} \cup {<<a, b>> : a \in RegionInputs, b \in RegionInputs}

\* seg = Segment(); seg.from_buffer(buffer, bbox); add(IID(b"x"), seg)
FromBuffer(buffer, bbox) ==
    /\ Len(entries) < MaxBuffers
    /\ Add([iid |-> Some(<<120>>), domain |-> None,
            seg |-> Segment_from_buffer(buffer, bbox), buffer |-> Some(buffer)], None)

\* add(IID(b"x"), Segment(bbox=(0, 0, 2, 2), area=4, regions=Regions(regs)))
AddRegions(regs) ==
    /\ Len(entries) < MaxBuffers
    /\ Add([iid |-> Some(<<120>>), domain |-> None,
            seg |-> [bbox |-> <<0, 0, 2, 2>>, area |-> 4, regions |-> regs],
            buffer |-> None], None)

\* lut.entries[k].seg.buffer() has ended with r
Buffered(k, r) ==
    /\ ret' = Ret("buffer", [key |-> k], r.err, r.val)
    /\ UNCHANGED << disk, exists, mmap, blockmap, header, bufloc, entries, fetched, groups,
                    hist >>

\* lut.entries[k].seg.buffer()
Buffer(k) ==
    /\ Idle
    /\ k < Len(entries)
    /\ Buffered(k, Segment_buffer(Get(entries[k + 1]).seg))

NextBuf ==
    \/ \E buffer \in BufferMasks, bbox \in BufferBoxes : FromBuffer(buffer, bbox)
    \/ \E regs \in RegionLists : AddRegions(regs)
    \/ \E k \in 0..(MaxBuffers - 1) : Buffer(k)
    \/ Return

SpecBuf == Init /\ [][NextBuf]_vars

\* The segment buffer() was called on, and the add that gave it
BufferedSeg == Get(entries[ret.args.key + 1]).seg

BufferedAdd == hist.added[ret.args.key + 1]

\* Region reg is set at the pixel of row r and column c (1-based) of the
\* buffer of a segment of bbox b
RegionSetAt(reg, b, r, c) ==
    /\ reg.bbox[1] - b[1] < r /\ r <= reg.bbox[3] - b[1]
    /\ reg.bbox[2] - b[2] < c /\ c <= reg.bbox[4] - b[2]
    /\ reg.mask[r - (reg.bbox[1] - b[1])][c - (reg.bbox[2] - b[2])] = 1

\* The union of the region masks of a segment in the window of its bbox
UnionOfRegions(seg) ==
    [r \in 1..(Get(seg.bbox)[3] - Get(seg.bbox)[1]) |->
        [c \in 1..(Get(seg.bbox)[4] - Get(seg.bbox)[2]) |->
            IF \E i \in 1..Len(Get(seg.regions)) :
                    RegionSetAt(Get(seg.regions)[i], Get(seg.bbox), r, c)
            THEN 1 ELSE 0]]

\* C14: Segment.buffer() is the union of the region masks: for regions inside
\* the bbox of the segment, overlapping or not, the buffer is set at a pixel
\* iff a region is set there, a later region never clearing a pixel of an
\* earlier one; and for a mask M given to from_buffer, buffer() returns M.
C14_BufferIsUnion ==
    ret.op = "buffer" =>
        /\ ret.err = ""
        /\ ret.val = UnionOfRegions(BufferedSeg)
        /\ ~IsNone(BufferedAdd.buffer) => ret.val = Get(BufferedAdd.buffer)

\* C14 (the part that holds): when no two region bboxes of the segment
\* overlap, buffer() is the union of the region masks.
C14_DisjointBoxes ==
    ( /\ ret.op = "buffer"
      /\ \A i, j \in 1..Len(Get(BufferedSeg.regions)) :
            i # j =>
                \/ Get(BufferedSeg.regions)[i].bbox[3] <= Get(BufferedSeg.regions)[j].bbox[1]
                \/ Get(BufferedSeg.regions)[j].bbox[3] <= Get(BufferedSeg.regions)[i].bbox[1]
                \/ Get(BufferedSeg.regions)[i].bbox[4] <= Get(BufferedSeg.regions)[j].bbox[2]
                \/ Get(BufferedSeg.regions)[j].bbox[4] <= Get(BufferedSeg.regions)[i].bbox[2] )
    => /\ ret.err = ""
       /\ ret.val = UnionOfRegions(BufferedSeg)
       /\ ~IsNone(BufferedAdd.buffer) => ret.val = Get(BufferedAdd.buffer)

\* C14 witness: buffer() has returned for a segment that from_buffer split
\* into two regions, the bbox of the second holding the first.
C14_Witness ==
    /\ ret.op = "buffer" /\ ret.err = ""
    /\ ~IsNone(BufferedAdd.buffer)
    /\ Len(Get(BufferedSeg.regions)) = 2
    /\ Get(BufferedSeg.regions)[2].bbox = Get(BufferedSeg.bbox)
    /\ Get(BufferedSeg.regions)[1].mask = << <<1>> >>
    /\ Get(BufferedSeg.regions)[1].bbox[1] = Get(BufferedSeg.bbox)[1]
    /\ Get(BufferedSeg.regions)[1].bbox[2] = Get(BufferedSeg.bbox)[2]

=============================================================================
